---- MODULE Spec2Model ----
(***************************************************************************)
(* Biomass Screw Conveyor Designer (src/screw_rotate.py).                  *)
(*                                                                         *)
(* The script is a Streamlit page: every change of an input widget reruns  *)
(* the whole script, which recomputes the volumetric feed rate and the     *)
(* design record from the five widget values.                              *)
(*                                                                         *)
(* Python floats are IEEE 754 binary64.  They are modelled exactly: a      *)
(* float is a record [m, e] standing for m * 2^e with a 53-bit mantissa m, *)
(* and every float operation is the exact operation followed by            *)
(* round-to-nearest-even.  Mantissas exceed the range of TLC's integers    *)
(* (32 bits), so naturals are little-endian sequences of 15-bit limbs.     *)
(* All floats of the program are non-negative, so there is no sign.        *)
(* The arithmetic is written as functions, whose arguments are evaluated   *)
(* once, before the function is applied.                                   *)
(*                                                                         *)
(* Two-decimal results (round(x, 2)) are carried as integer hundredths,    *)
(* the flight thickness as integer thousandths.                            *)
(***************************************************************************)
EXTENDS Naturals, Integers, Sequences, FiniteSets

(***************************************************************************)
(* Natural numbers of arbitrary size                                       *)
(***************************************************************************)

\* The limb base, 2^15: a product of two limbs plus carries fits in 31 bits.
Base == 32768

\* The number of bits of a limb.
LimbBits == 15

BigNat == Seq(Nat)

Pow2[k \in Nat] == IF k = 0 THEN 1 ELSE 2 * Pow2[k - 1]

NatOfInt[n \in Nat] ==
    IF n = 0 THEN <<>> ELSE <<n % Base>> \o NatOfInt[n \div Base]

IntOfNat[a \in BigNat] ==
    IF a = <<>> THEN 0 ELSE Head(a) + Base * IntOfNat[Tail(a)]

\* a without its leading zero limbs.
Norm[a \in BigNat] ==
    IF a = <<>> THEN <<>>
    ELSE IF a[Len(a)] = 0 THEN Norm[SubSeq(a, 1, Len(a) - 1)]
    ELSE a

CmpFrom[a \in BigNat, b \in BigNat, i \in Nat] ==
    IF i = 0 THEN 0
    ELSE IF a[i] < b[i] THEN -1
    ELSE IF a[i] > b[i] THEN 1
    ELSE CmpFrom[a, b, i - 1]

\* -1, 0 or 1 as a < b, a = b or a > b.
Cmp[a \in BigNat, b \in BigNat] ==
    IF Len(a) < Len(b) THEN -1
    ELSE IF Len(a) > Len(b) THEN 1
    ELSE CmpFrom[a, b, Len(a)]

AddC[a \in BigNat, b \in BigNat, c \in Nat] ==
    IF a = <<>> /\ b = <<>> THEN (IF c = 0 THEN <<>> ELSE <<c>>)
    ELSE LET s == (IF a = <<>> THEN 0 ELSE Head(a))
                  + (IF b = <<>> THEN 0 ELSE Head(b)) + c
         IN  <<s % Base>> \o AddC[IF a = <<>> THEN <<>> ELSE Tail(a),
                                  IF b = <<>> THEN <<>> ELSE Tail(b),
                                  s \div Base]

Add[a \in BigNat, b \in BigNat] == AddC[a, b, 0]

SubB[a \in BigNat, b \in BigNat, w \in Nat] ==
    IF a = <<>> THEN <<>>
    ELSE LET s == Head(a) - (IF b = <<>> THEN 0 ELSE Head(b)) - w
         IN  <<IF s < 0 THEN s + Base ELSE s>>
             \o SubB[Tail(a), IF b = <<>> THEN <<>> ELSE Tail(b),
                     IF s < 0 THEN 1 ELSE 0]

\* a - b, for a >= b.
Sub[a \in BigNat, b \in BigNat] == Norm[SubB[a, b, 0]]

MulLimbC[a \in BigNat, k \in Nat, c \in Nat] ==
    IF a = <<>> THEN (IF c = 0 THEN <<>> ELSE <<c>>)
    ELSE <<(Head(a) * k + c) % Base>>
         \o MulLimbC[Tail(a), k, (Head(a) * k + c) \div Base]

\* a * k, for a limb k < Base.
MulLimb[a \in BigNat, k \in Nat] == Norm[MulLimbC[a, k, 0]]

Zeros[n \in Nat] == IF n = 0 THEN <<>> ELSE <<0>> \o Zeros[n - 1]

ShlLimbs[a \in BigNat, n \in Nat] == IF a = <<>> THEN <<>> ELSE Zeros[n] \o a

Mul[a \in BigNat, b \in BigNat] ==
    IF b = <<>> THEN <<>>
    ELSE Add[MulLimb[a, Head(b)], ShlLimbs[Mul[a, Tail(b)], 1]]

\* a * 2^k.
Shl[a \in BigNat, k \in Nat] ==
    ShlLimbs[MulLimb[a, Pow2[k % LimbBits]], k \div LimbBits]

ShrLimbs[a \in BigNat, n \in Nat] ==
    IF n >= Len(a) THEN <<>> ELSE SubSeq(a, n + 1, Len(a))

ShrBitsC[a \in BigNat, b \in Nat] ==
    IF a = <<>> THEN <<>>
    ELSE <<(Head(a) \div Pow2[b])
           + (IF Len(a) > 1 THEN (a[2] % Pow2[b]) * Pow2[LimbBits - b] ELSE 0)>>
         \o ShrBitsC[Tail(a), b]

\* floor(a / 2^b) for b < LimbBits.
ShrBits[a \in BigNat, b \in Nat] == Norm[ShrBitsC[a, b]]

\* floor(a / 2^k).
Shr[a \in BigNat, k \in Nat] ==
    ShrBits[ShrLimbs[a, k \div LimbBits], k % LimbBits]

\* Bit j of a (bit 0 is the least significant).
Bit[a \in BigNat, j \in Nat] ==
    IF j \div LimbBits + 1 > Len(a) THEN 0
    ELSE (a[j \div LimbBits + 1] \div Pow2[j % LimbBits]) % 2

\* Whether a is a multiple of 2^k.
LowZero[a \in BigNat, k \in Nat] ==
    /\ \A i \in 1..Len(a) : i <= k \div LimbBits => a[i] = 0
    /\ k \div LimbBits + 1 <= Len(a)
           => a[k \div LimbBits + 1] % Pow2[k % LimbBits] = 0

BitsOfLimb[x \in Nat] == IF x = 0 THEN 0 ELSE 1 + BitsOfLimb[x \div 2]

\* The number of bits of a: 2^(BitLen[a]-1) <= a < 2^BitLen[a] for a > 0.
BitLen[a \in BigNat] ==
    IF a = <<>> THEN 0
    ELSE LimbBits * (Len(a) - 1) + BitsOfLimb[a[Len(a)]]

One == <<1>>

IsOdd(a) == a # <<>> /\ a[1] % 2 = 1

\* The largest t in lo..hi with d * t <= r, by bisection.
QDigit[r \in BigNat, d \in BigNat, lo \in Nat, hi \in Nat] ==
    IF lo = hi THEN lo
    ELSE IF Cmp[MulLimb[d, (lo + hi + 1) \div 2], r] <= 0
         THEN QDigit[r, d, (lo + hi + 1) \div 2, hi]
         ELSE QDigit[r, d, lo, (lo + hi + 1) \div 2 - 1]

\* Long division, one limb of the quotient at a time from the most
\* significant limb of the dividend: q is the quotient of the limbs above,
\* r0 the dividend so far (less than d * Base), t the next quotient limb.
DivOut[r0 \in BigNat, q \in BigNat, d \in BigNat, t \in Nat] ==
    [q |-> Norm[<<t>> \o q], r |-> Sub[r0, MulLimb[d, t]]]

DivDigit[r0 \in BigNat, q \in BigNat, d \in BigNat] ==
    DivOut[r0, q, d, IF Cmp[r0, d] < 0 THEN 0 ELSE QDigit[r0, d, 1, Base - 1]]

\* A quotient with its remainder.
QuotRem == [q : BigNat, r : BigNat]

DivStep[hi \in QuotRem, h \in Nat, d \in BigNat] ==
    DivDigit[Norm[<<h>> \o hi.r], hi.q, d]

\* Quotient and remainder of n by d > 0.
DivMod[n \in BigNat, d \in BigNat] ==
    IF n = <<>> THEN [q |-> <<>>, r |-> <<>>]
    ELSE DivStep[DivMod[Tail(n), d], Head(n), d]

\* q, or q + 1: q is the floor of a value, half its first bit below the
\* point, below whether any later bit is set; ties go to even.
RoundHalfEven[q \in BigNat, half \in BOOLEAN, below \in BOOLEAN] ==
    IF half /\ (below \/ IsOdd(q)) THEN Add[q, One] ELSE q

\* Round-half-even of (a + f) / 2^k, where the fraction f is 0, or lies
\* strictly between 0 and 1 when sticky.
RoundShift[a \in BigNat, k \in Nat, sticky \in BOOLEAN] ==
    IF k = 0 THEN a
    ELSE RoundHalfEven[Shr[a, k], Bit[a, k - 1] = 1,
                       sticky \/ ~LowZero[a, k - 1]]

(***************************************************************************)
(* IEEE 754 binary64 arithmetic on non-negative values                     *)
(***************************************************************************)

\* The mantissa width of a binary64 float.
MantBits == 53

\* Bits a quotient is computed to beyond the mantissa, so that the bits
\* left in the remainder lie below the rounding bit.
GuardBits == 3

Floats == [m : BigNat, e : Int]

FZero == [m |-> <<>>, e |-> 0]

\* m * 2^e with m brought back to MantBits bits after a rounding carry.
FNormal[m \in BigNat, e \in Int] ==
    IF BitLen[m] > MantBits THEN [m |-> Shr[m, 1], e |-> e + 1]
    ELSE [m |-> m, e |-> e]

\* The float nearest to (a + f) * 2^e, ties to even, for a > 0 and f as in
\* RoundShift (a sticky a has more than MantBits + 1 bits).
FRound[a \in BigNat, e \in Int, sticky \in BOOLEAN] ==
    IF BitLen[a] <= MantBits
    THEN [m |-> Shl[a, MantBits - BitLen[a]], e |-> e + BitLen[a] - MantBits]
    ELSE FNormal[RoundShift[a, BitLen[a] - MantBits, sticky],
                 e + BitLen[a] - MantBits]

FRoundQR[qr \in QuotRem, e \in Int] ==
    FRound[qr.q, e, qr.r # <<>>]

\* The number of bits to scale n by so that n / d has a rounding bit.
QuotShift[n \in BigNat, d \in BigNat] ==
    IF MantBits + GuardBits + BitLen[d] - BitLen[n] > 0
    THEN MantBits + GuardBits + BitLen[d] - BitLen[n]
    ELSE 0

\* The float nearest to (n / d) * 2^e, for naturals n and d > 0.
FQuot[n \in BigNat, d \in BigNat, e \in Int] ==
    IF n = <<>> THEN FZero
    ELSE FRoundQR[DivMod[Shl[n, QuotShift[n, d]], d], e - QuotShift[n, d]]

FromInt[n \in Nat] == IF n = 0 THEN FZero ELSE FRound[NatOfInt[n], 0, FALSE]

FMul[x \in Floats, y \in Floats] ==
    IF x.m = <<>> \/ y.m = <<>> THEN FZero
    ELSE FRound[Mul[x.m, y.m], x.e + y.e, FALSE]

\* x / y for y # 0 (the caller decides what a zero divisor does).
FDiv[x \in Floats, y \in Floats] ==
    IF x.m = <<>> THEN FZero ELSE FQuot[x.m, y.m, x.e - y.e]

FAdd[x \in Floats, y \in Floats] ==
    IF x.m = <<>> THEN y
    ELSE IF y.m = <<>> THEN x
    ELSE IF x.e < y.e
         THEN FRound[Add[x.m, Shl[y.m, y.e - x.e]], x.e, FALSE]
         ELSE FRound[Add[Shl[x.m, x.e - y.e], y.m], y.e, FALSE]

\* x < y.
FLess[x \in Floats, y \in Floats] ==
    IF y.m = <<>> THEN FALSE
    ELSE IF x.m = <<>> THEN TRUE
    ELSE IF x.e # y.e THEN x.e < y.e
    ELSE Cmp[x.m, y.m] < 0

\* The largest float below x, for x > 0.
FPred[x \in Floats] ==
    IF x.m = Shl[One, MantBits - 1]
    THEN [m |-> Sub[Shl[One, MantBits], One], e |-> x.e - 1]
    ELSE [m |-> Sub[x.m, One], e |-> x.e]

\* A decimal literal n / d of the source text (d a power of ten): the parser
\* yields the float nearest to the decimal.
Lit[n \in Nat, d \in Nat] == FQuot[NatOfInt[n], NatOfInt[d], 0]

\* round(x, 2) in hundredths: the exact binary value of x rounded to two
\* decimals, ties to even (CPython rounds the exact value, then reparses).
Round2[x \in Floats] ==
    IF x.m = <<>> THEN 0
    ELSE IF x.e >= 0 THEN IntOfNat[Shl[MulLimb[x.m, 100], x.e]]
    ELSE IntOfNat[RoundShift[MulLimb[x.m, 100], -x.e, FALSE]]

(***************************************************************************)
(* Text: a label is a sequence of one-character strings                    *)
(***************************************************************************)

UpperCase ==
    <<"A", "B", "C", "D", "E", "F", "G", "H", "I", "J", "K", "L", "M",
      "N", "O", "P", "Q", "R", "S", "T", "U", "V", "W", "X", "Y", "Z">>

LowerCase ==
    <<"a", "b", "c", "d", "e", "f", "g", "h", "i", "j", "k", "l", "m",
      "n", "o", "p", "q", "r", "s", "t", "u", "v", "w", "x", "y", "z">>

LowerChar(c) ==
    IF \E i \in DOMAIN UpperCase : UpperCase[i] = c
    THEN LowerCase[CHOOSE i \in DOMAIN UpperCase : UpperCase[i] = c]
    ELSE c

Labels == Seq(STRING)

LowerSeq[s \in Labels] ==
    IF s = <<>> THEN <<>> ELSE <<LowerChar(Head(s))>> \o LowerSeq[Tail(s)]

\* str.lower()
lower(s) == LowerSeq[s]

\* The operator "sub in s" on strings.
Contains(sub, s) ==
    \E i \in 1..(Len(s) - Len(sub) + 1) : SubSeq(s, i, i + Len(sub) - 1) = sub

Wood == <<"w", "o", "o", "d">>
Husk == <<"h", "u", "s", "k">>

(***************************************************************************)
(* Constants and widget ranges of the script                               *)
(***************************************************************************)

DRIVE_EFFICIENCY == Lit[88, 100]
GRAVITY == Lit[322, 10]

RiceHusk == <<"r", "i", "c", "e", " ", "h", "u", "s", "k">>

FeedMin == 1
FeedMax == 500
FeedDefault == 100
\* The bulk density widget without its min_value: a number_input starts
\* at 0 then.
BulkMinUnclamped == FeedMin - FeedMin
BulkMin == 50
BulkMax == 1000
BulkDefault == 180
MoistureMin == 0
MoistureMax == 100
MoistureDefault == 15
AngleMin == 0
AngleMax == 45
AngleDefault == 20

\* The moisture content above which a coated steel is recommended.
MoistureLimit == 25

(***************************************************************************)
(* math.sin(math.radians(angle)) for the whole degrees of the slider       *)
(***************************************************************************)

\* The decimal chunk base of SinDigits.
Million == 1000000

\* Entry angle + 1 holds the 18 decimals of sin(angle degrees) as the
\* platform's libm returns it (the shortest decimal that reads back as the
\* same float, padded with zeros), in three chunks of six digits.
SinDigits ==
    <<
       <<0, 0, 0>>, <<17452, 406437, 283510>>, <<34899, 496702, 500970>>,
       <<52335, 956242, 943835>>, <<69756, 473744, 125300>>, <<87155, 742747, 658170>>,
       <<104528, 463267, 653470>>, <<121869, 343405, 147480>>, <<139173, 100960, 65440>>,
       <<156434, 465040, 230870>>, <<173648, 177666, 930330>>, <<190808, 995376, 544800>>,
       <<207911, 690817, 759340>>, <<224951, 54343, 865000>>, <<241921, 895599, 667730>>,
       <<258819, 45102, 520740>>, <<275637, 355816, 999160>>, <<292371, 704722, 736770>>,
       <<309016, 994374, 947400>>, <<325568, 154457, 156700>>, <<342020, 143325, 668700>>,
       <<358367, 949545, 300270>>, <<374606, 593415, 912000>>, <<390731, 128489, 273770>>,
       <<406736, 643075, 800200>>, <<422618, 261740, 699440>>, <<438371, 146789, 77400>>,
       <<453990, 499739, 546750>>, <<469471, 562785, 890800>>, <<484809, 620246, 337060>>,
       <<499999, 999999, 999940>>, <<515038, 74910, 54200>>, <<529919, 264233, 204900>>,
       <<544639, 35015, 27100>>, <<559192, 903470, 746900>>, <<573576, 436351, 46000>>,
       <<587785, 252292, 473100>>, <<601815, 23152, 48300>>, <<615661, 475325, 658300>>,
       <<629320, 391049, 837400>>, <<642787, 609686, 539300>>, <<656059, 28990, 507300>>,
       <<669130, 606358, 858200>>, <<681998, 360062, 498500>>, <<694658, 370458, 997300>>,
       <<707106, 781186, 547500>>
    >>

NatOfChunks(c) ==
    Add[Mul[Add[Mul[NatOfInt[c[1]], NatOfInt[Million]], NatOfInt[c[2]]],
            NatOfInt[Million]],
        NatOfInt[c[3]]]

\* math.sin(math.radians(angle))
sin_radians(angle) ==
    FQuot[NatOfChunks(SinDigits[angle + 1]),
          Mul[NatOfInt[Million], Mul[NatOfInt[Million], NatOfInt[Million]]],
          0]

(***************************************************************************)
(* Calculation functions                                                   *)
(***************************************************************************)

\* Line 21 with the operands of the division exchanged.
VolumetricFeedRateInverted(f, bd) ==
    FMul[FDiv[FromInt[bd], FromInt[f]], Lit[353147, 10000]]

\* feed_rate_cfh = (feed_rate_kgph / bulk_density) * 35.3147, bulk_density # 0
VolumetricFeedRate(f, bd) ==
    FMul[FDiv[FromInt[f], FromInt[bd]], Lit[353147, 10000]]

\* The brackets with their upper bounds inclusive.
calculate_screw_diameter_inclusive(cfh) ==
    IF ~FLess[FromInt[1000], cfh] THEN 4
    ELSE IF ~FLess[FromInt[2000], cfh] THEN 6
    ELSE IF ~FLess[FromInt[4000], cfh] THEN 9
    ELSE 12

calculate_screw_diameter(cfh) ==
    IF FLess[cfh, FromInt[1000]] THEN 4
    ELSE IF FLess[cfh, FromInt[2000]] THEN 6
    ELSE IF FLess[cfh, FromInt[4000]] THEN 9
    ELSE 12

calculate_pitch(d) == d

\* The product cut after two decimals instead of rounded to them.
calculate_shaft_diameter_truncated(d) ==
    IntOfNat[Shr[MulLimb[FMul[FromInt[d], Lit[3, 10]].m, 100],
                 -FMul[FromInt[d], Lit[3, 10]].e]]

\* In hundredths of an inch.
calculate_shaft_diameter(d) == Round2[FMul[FromInt[d], Lit[3, 10]]]

\* The thin flight for diameters below 6 only.
calculate_thickness_exclusive(d) == IF d < 6 THEN 250 ELSE 375

\* In thousandths of an inch: 0.25 or 0.375.
calculate_thickness(d) == IF d <= 6 THEN 250 ELSE 375

\* The material horsepower per minute: the divisor without its factor 60.
MHP_per_minute(cfh, bd, angle) ==
    FDiv[FMul[FMul[FMul[cfh, bd], GRAVITY], sin_radians(angle)],
         FromInt[33000]]

\* The material horsepower term of calculate_power.
MHP(cfh, bd, angle) ==
    FDiv[FMul[FMul[FMul[cfh, bd], GRAVITY], sin_radians(angle)],
         FromInt[33000 * 60]]

\* Total shaft horsepower before rounding.
TSHP(cfh, bd, angle) ==
    LET FHP == Lit[5, 10]
        fi  == FAdd[FromInt[1], FDiv[FromInt[angle], FromInt[90]]]
    IN  FDiv[FMul[FAdd[FHP, MHP(cfh, bd, angle)], fi], DRIVE_EFFICIENCY]

\* The power scaled by the screw diameter relative to the smallest screw.
calculate_power_scaled(cfh, bd, angle, d) ==
    Round2[FMul[TSHP(cfh, bd, angle), FDiv[FromInt[d], FromInt[4]]]]

\* In hundredths of a horsepower.
calculate_power(cfh, bd, angle, d) == Round2[TSHP(cfh, bd, angle)]

\* The rules with the moisture check ahead of the substring check.
recommend_material_moisture_first(biomass, mc) ==
    IF mc > MoistureLimit THEN "316 SS or Coated Carbon Steel"
    ELSE IF Contains(Wood, biomass) \/ Contains(Husk, biomass)
    THEN "Stainless Steel 304"
    ELSE "Mild Steel"

recommend_material(biomass, mc) ==
    IF Contains(Wood, biomass) \/ Contains(Husk, biomass)
    THEN "Stainless Steel 304"
    ELSE IF mc > MoistureLimit THEN "316 SS or Coated Carbon Steel"
    ELSE "Mild Steel"

(***************************************************************************)
(* Input values explored                                                   *)
(***************************************************************************)

\* Values set on the widgets: the ends and the default of each range, and
\* for the moisture slider the first value above the limit and every
\* multiple of MoistureStep.
MoistureStep == 100

FeedRates == {FeedMin, FeedDefault, FeedMax}

BulkDensities == {BulkMin, BulkDefault, BulkMax}

Angles == {AngleMin, AngleDefault, AngleMax}

Moistures ==
    {MoistureDefault, MoistureLimit + 1}
    \cup {m \in MoistureMin..MoistureMax : m % MoistureStep = 0}

\* Arguments of direct calls: the widget values, and every multiple of a
\* step inside the range.
FeedStep == 250
BulkStep == 400
AngleStep == 30

FeedProbes == FeedRates \cup {f \in FeedMin..FeedMax : f % FeedStep = 0}

BulkProbes == BulkDensities \cup {b \in BulkMin..BulkMax : b % BulkStep = 0}

AngleProbes == Angles \cup {a \in AngleMin..AngleMax : a % AngleStep = 0}

\* Volumetric feed rates passed to the geometry functions, in thousandths
\* of a cubic foot per hour: CfhSpread thousandths on either side of each
\* bracket boundary, and values far from them.
CfhSpread == 10

Thousand == 1000

BracketBounds == {1000, 2000, 4000}

CfhMillis ==
    {1, 353147, 1500000, 3000000, 9000000}
    \cup UNION {(t * Thousand - CfhSpread)..(t * Thousand + CfhSpread) :
                    t \in BracketBounds}

ScrewDiameters == {4, 6, 9, 12}

RiceHuskUpper == <<"R", "I", "C", "E", " ", "H", "U", "S", "K">>
WoodChips == <<"W", "o", "o", "D", " ", "c", "h", "i", "p", "s">>
CornStover == <<"c", "o", "r", "n", " ", "s", "t", "o", "v", "e", "r">>
Sawdust == <<"S", "a", "w", "d", "u", "s", "t">>
NoLabel == <<>>

\* Labels typed into the text input.
TypedLabels == {RiceHusk, WoodChips, CornStover}

\* Labels whose lowercase form contains "wood" or "husk", and labels whose
\* lowercase form does not.
MatchingLabels == {RiceHusk, RiceHuskUpper, WoodChips}
OtherLabels == {CornStover, Sawdust, NoLabel}

(***************************************************************************)
(* The script                                                              *)
(***************************************************************************)

VARIABLES
    biomass_type, feed_rate_kgph, bulk_density, moisture_content,
    incline_angle_deg,                      \* the widgets' values
    feed_rate_cfh, Ds, pitch, shaft_dia, thickness, material, power_hp,
    error,                                  \* the exception ending the run
    call, ret,                              \* a direct call and its result
    snapshot                                \* an earlier run, remembered

vars ==
    <<biomass_type, feed_rate_kgph, bulk_density, moisture_content,
      incline_angle_deg, feed_rate_cfh, Ds, pitch, shaft_dia, thickness,
      material, power_hp, error, call, ret, snapshot>>

\* The value of a name the run never bound.
Undefined == "undefined"

None == "none"

\* No direct call is under way.
NoCall == [fn |-> None]

\* No run is remembered.  Once one is, left tells whether a run with other
\* inputs has followed it.
NoSnapshot ==
    [taken |-> FALSE, inputs |-> <<>>, outputs |-> <<>>, left |-> FALSE]

\* Lines 52-54: the dimensions that follow from the screw diameter d.
Dimensions(d) ==
    [Ds |-> d, pitch |-> calculate_pitch(d),
     shaft_dia |-> calculate_shaft_diameter(d),
     thickness |-> calculate_thickness(d)]

\* Lines 51-54: the geometry of the screw for a volumetric feed rate.
Geometry(cfh) ==
    CHOOSE g \in {Dimensions(d) : d \in {calculate_screw_diameter(cfh)}} : TRUE

\* The second argument of calculate_power on line 56.
SpecificGravity(bd) == FDiv[FromInt[bd], Lit[624, 10]]

\* Lines 51-54 and 56 for the volumetric feed rate cfh of line 21.
NumericOf(cfh, g, bd, a) ==
    [error |-> None, feed_rate_cfh |-> cfh, Ds |-> g.Ds, pitch |-> g.pitch,
     shaft_dia |-> g.shaft_dia, thickness |-> g.thickness,
     power_hp |-> calculate_power(cfh, SpecificGravity(bd), a, g.Ds)]

\* The numeric part with a check of the bulk density ahead of line 21.
NumericValidating(f, bd, a) ==
    IF bd = 0
    THEN [error |-> "InvalidInputError", feed_rate_cfh |-> Undefined,
          Ds |-> Undefined, pitch |-> Undefined, shaft_dia |-> Undefined,
          thickness |-> Undefined, power_hp |-> Undefined]
    ELSE CHOOSE n \in {NumericOf(cfh, Geometry(cfh), bd, a) :
                          cfh \in {VolumetricFeedRate(f, bd)}} : TRUE

\* Lines 21, 51-54 and 56: the numeric part of one run of the script.  The
\* division of line 21 raises ZeroDivisionError on a bulk density of 0.
Numeric(f, bd, a) ==
    IF bd = 0
    THEN [error |-> "ZeroDivisionError", feed_rate_cfh |-> Undefined,
          Ds |-> Undefined, pitch |-> Undefined, shaft_dia |-> Undefined,
          thickness |-> Undefined, power_hp |-> Undefined]
    ELSE CHOOSE n \in {NumericOf(cfh, Geometry(cfh), bd, a) :
                          cfh \in {VolumetricFeedRate(f, bd)}} : TRUE

\* Numeric on the input values explored, and on a bulk density of 0.
NumericTable ==
    [f \in FeedProbes, bd \in BulkProbes \cup {0}, a \in AngleProbes |->
        Numeric(f, bd, a)]

\* Line 55.
Material(b, mc) == recommend_material(lower(b), mc)

\* The names a run binds: those of its numeric part n, and the material.
Design(n, b, mc) ==
    [error |-> n.error, feed_rate_cfh |-> n.feed_rate_cfh, Ds |-> n.Ds,
     pitch |-> n.pitch, shaft_dia |-> n.shaft_dia, thickness |-> n.thickness,
     material |-> IF n.error = None THEN Material(b, mc) ELSE Undefined,
     power_hp |-> n.power_hp]

\* One run of the script, lines 21-56, as a value.
ComputeDesign(b, f, bd, mc, a) ==
    CHOOSE r \in {Design(n, b, mc) : n \in {NumericTable[f, bd, a]}} : TRUE

Inputs ==
    <<biomass_type, feed_rate_kgph, bulk_density, moisture_content,
      incline_angle_deg>>

Outputs == <<Ds, pitch, shaft_dia, thickness, material, power_hp>>

\* The widgets at b, f, bd, mc, a and the names the run r binds.
Store(r, b, f, bd, mc, a) ==
        /\ biomass_type' = b
        /\ feed_rate_kgph' = f
        /\ bulk_density' = bd
        /\ moisture_content' = mc
        /\ incline_angle_deg' = a
        /\ error' = r.error
        /\ feed_rate_cfh' = r.feed_rate_cfh
        /\ Ds' = r.Ds
        /\ pitch' = r.pitch
        /\ shaft_dia' = r.shaft_dia
        /\ thickness' = r.thickness
        /\ material' = r.material
        /\ power_hp' = r.power_hp
        /\ snapshot' = IF ~snapshot.taken THEN snapshot
                       ELSE [snapshot EXCEPT
                               !.left = @ \/ <<b, f, bd, mc, a>> # snapshot.inputs]
        /\ UNCHANGED <<call, ret>>

\* A run that keeps the material of the run before it while the label is
\* the same.
RerunStale(b, f, bd, mc, a) ==
    \E r \in {ComputeDesign(b, f, bd, mc, a)} :
        Store([r EXCEPT !.material =
                   IF b = biomass_type THEN material ELSE r.material],
              b, f, bd, mc, a)

\* One run of the script with the widgets at b, f, bd, mc, a.
Rerun(b, f, bd, mc, a) ==
    \E r \in {ComputeDesign(b, f, bd, mc, a)} : Store(r, b, f, bd, mc, a)

\* The first run: every widget at its default.
Init ==
    \E r \in {ComputeDesign(RiceHusk, FeedDefault, BulkDefault,
                            MoistureDefault, AngleDefault)} :
        /\ biomass_type = RiceHusk
        /\ feed_rate_kgph = FeedDefault
        /\ bulk_density = BulkDefault
        /\ moisture_content = MoistureDefault
        /\ incline_angle_deg = AngleDefault
        /\ error = r.error
        /\ feed_rate_cfh = r.feed_rate_cfh
        /\ Ds = r.Ds
        /\ pitch = r.pitch
        /\ shaft_dia = r.shaft_dia
        /\ thickness = r.thickness
        /\ material = r.material
        /\ power_hp = r.power_hp
        /\ call = NoCall
        /\ ret = NoCall
        /\ snapshot = NoSnapshot

ChangeBiomass ==
    \E b \in TypedLabels :
        Rerun(b, feed_rate_kgph, bulk_density, moisture_content,
              incline_angle_deg)

ChangeFeedRate ==
    \E f \in FeedRates :
        Rerun(biomass_type, f, bulk_density, moisture_content,
              incline_angle_deg)

ChangeBulkDensity ==
    \E bd \in BulkDensities :
        Rerun(biomass_type, feed_rate_kgph, bd, moisture_content,
              incline_angle_deg)

ChangeMoisture ==
    \E mc \in Moistures :
        Rerun(biomass_type, feed_rate_kgph, bulk_density, mc,
              incline_angle_deg)

ChangeAngle ==
    \E a \in Angles :
        Rerun(biomass_type, feed_rate_kgph, bulk_density, moisture_content, a)

\* A click on the download button reruns the script with the same inputs.
ClickDownload ==
    Rerun(biomass_type, feed_rate_kgph, bulk_density, moisture_content,
          incline_angle_deg)

Next ==
    \/ ChangeBiomass
    \/ ChangeFeedRate
    \/ ChangeBulkDensity
    \/ ChangeMoisture
    \/ ChangeAngle
    \/ ClickDownload

Spec == Init /\ [][Next]_vars

(***************************************************************************)
(* The script with one of its runs remembered                              *)
(***************************************************************************)

\* Remember the inputs and the outputs of the current run.
Remember ==
    /\ ~snapshot.taken
    /\ snapshot' = [taken |-> TRUE, inputs |-> Inputs, outputs |-> Outputs,
                    left |-> FALSE]
    /\ UNCHANGED <<biomass_type, feed_rate_kgph, bulk_density,
                   moisture_content, incline_angle_deg, feed_rate_cfh, Ds,
                   pitch, shaft_dia, thickness, material, power_hp, error,
                   call, ret>>

NextRepeat == Next \/ Remember

SpecRepeat == Init /\ [][NextRepeat]_vars

(***************************************************************************)
(* The calculation functions called directly                               *)
(***************************************************************************)

script ==
    <<biomass_type, feed_rate_kgph, bulk_density, moisture_content,
      incline_angle_deg, feed_rate_cfh, Ds, pitch, shaft_dia, thickness,
      material, power_hp, error, snapshot>>

\* The float of a volumetric feed rate given in thousandths, or the float
\* just below it.
CfhOf(k, pred) == IF pred THEN FPred[Lit[k, Thousand]] ELSE Lit[k, Thousand]

\* Lines 51-54 on any volumetric feed rate.
CallGeometry ==
    \E k \in CfhMillis, pred \in BOOLEAN :
        /\ call = NoCall
        /\ call' = [fn |-> "geometry", millis |-> k, pred |-> pred]
        /\ ret' = Geometry(CfhOf(k, pred))
        /\ UNCHANGED script

\* Line 55 on any label and moisture content.
CallMaterial ==
    \E b \in MatchingLabels \cup OtherLabels, mc \in MoistureMin..MoistureMax :
        /\ call = NoCall
        /\ call' = [fn |-> "material", biomass |-> b, mc |-> mc]
        /\ ret' = [material |-> Material(b, mc)]
        /\ UNCHANGED script

\* calculate_power on the feed rate and specific gravity of f and bd, and
\* on any screw diameter.
CallPower ==
    \E f \in FeedProbes, bd \in BulkProbes, a \in AngleProbes,
       d \in ScrewDiameters :
        /\ call = NoCall
        /\ call' = [fn |-> "power", feed |-> f, bulk |-> bd, angle |-> a,
                    d |-> d]
        /\ ret' = [power_hp |-> calculate_power(NumericTable[f, bd, a].feed_rate_cfh,
                                                SpecificGravity(bd), a, d)]
        /\ UNCHANGED script

\* Lines 21-56 on inputs nothing has clamped: the bulk density may be 0.
CallComputeDesign ==
    \E b \in TypedLabels, f \in FeedRates, bd \in BulkDensities \cup {0},
       mc \in Moistures, a \in Angles :
        /\ call = NoCall
        /\ call' = [fn |-> "computeDesign", biomass |-> b, feed |-> f,
                    bulk |-> bd, mc |-> mc, angle |-> a]
        /\ ret' = ComputeDesign(b, f, bd, mc, a)
        /\ UNCHANGED script

Return ==
    /\ call # NoCall
    /\ call' = NoCall
    /\ ret' = NoCall
    /\ UNCHANGED script

NextFn ==
    \/ CallGeometry
    \/ CallMaterial
    \/ CallPower
    \/ CallComputeDesign
    \/ Return

SpecFn == Init /\ [][NextFn]_vars

(***************************************************************************)
(* Properties                                                              *)
(***************************************************************************)

DefaultInputs ==
    <<RiceHusk, FeedDefault, BulkDefault, MoistureDefault, AngleDefault>>

Materials ==
    {"Stainless Steel 304", "316 SS or Coated Carbon Steel", "Mild Steel"}

\* The volumetric feed rate CfhOf(k, pred) lies below t cubic feet per hour.
Below(k, pred, t) == k < t * Thousand \/ (k = t * Thousand /\ pred)

\* The diameter the bracket table gives CfhOf(k, pred).
BracketDiameter(k, pred) ==
    IF Below(k, pred, 1000) THEN 4
    ELSE IF Below(k, pred, 2000) THEN 6
    ELSE IF Below(k, pred, 4000) THEN 9
    ELSE 12

\* x lies within half a millionth of n millionths.
AboutMillionths(x, n) ==
    /\ ~FLess[x, Lit[2 * n - 1, 2 * Million]]
    /\ FLess[x, Lit[2 * n + 1, 2 * Million]]

\* The material horsepower term of the current run.
CurrentMHP ==
    MHP(feed_rate_cfh, SpecificGravity(bulk_density), incline_angle_deg)

\* C1: the screw diameter is 4 for a volumetric feed rate below 1000, 6 from
\* 1000 to below 2000, 9 from 2000 to below 4000 and 12 from 4000 on, so
\* that exactly 1000, 2000 and 4000 fall in the next bracket.
C1_DiameterBrackets ==
    call.fn = "geometry" => ret.Ds = BracketDiameter(call.millis, call.pred)

\* A volumetric feed rate of exactly 1000 gets the 6 inch screw.
C1_Witness ==
    /\ call.fn = "geometry"
    /\ call.millis = 1000 * Thousand
    /\ ~call.pred
    /\ ret.Ds = 6

\* C2: a label whose lowercase form contains "wood" or "husk" gets
\* "Stainless Steel 304" at every moisture content and in any letter case;
\* any other label gets "316 SS or Coated Carbon Steel" above 25 and
\* "Mild Steel" up to and including 25.
C2_MaterialRules ==
    call.fn = "material" =>
        ret.material =
            IF call.biomass \in MatchingLabels THEN "Stainless Steel 304"
            ELSE IF call.mc > MoistureLimit
                 THEN "316 SS or Coated Carbon Steel"
                 ELSE "Mild Steel"

\* An upper-case label at the highest moisture content gets the stainless
\* steel.
C2_Witness ==
    /\ call.fn = "material"
    /\ call.biomass = RiceHuskUpper
    /\ call.mc = MoistureMax
    /\ ret.material = "Stainless Steel 304"

\* C3 as the specification states it: on the example input the material
\* horsepower is about 0.000966 and the power requirement is 0.70.
C3_ExampleAsStated ==
    Inputs = DefaultInputs =>
        /\ AboutMillionths(CurrentMHP, 966)
        /\ power_hp = 70

\* C3: on the example input (rice husk, 100 kg/hr, 180 kg/m3, 15 %, 20
\* degrees) the material horsepower is about 0.000315 and the power
\* requirement, rounded to two decimals, is 0.69.
C3_Example ==
    Inputs = DefaultInputs =>
        /\ AboutMillionths(CurrentMHP, 315)
        /\ power_hp = 69

\* The run on the example input has produced its power requirement.
C3_Witness ==
    /\ Inputs = DefaultInputs
    /\ error = None
    /\ material = "Stainless Steel 304"
    /\ power_hp = 69

\* C4: the shaft diameter is 0.3 times the screw diameter to two decimals,
\* exactly: 1.2, 1.8, 2.7 and 3.6 for the screws of 4, 6, 9 and 12 inches.
C4_ShaftDiameters ==
    call.fn = "geometry" =>
        /\ ret.shaft_dia * 10 = 3 * ret.Ds * 100
        /\ ret.Ds = 4 => ret.shaft_dia = 120
        /\ ret.Ds = 6 => ret.shaft_dia = 180
        /\ ret.Ds = 9 => ret.shaft_dia = 270
        /\ ret.Ds = 12 => ret.shaft_dia = 360

\* The 6 inch screw, whose product 0.3 * 6 is not 1.8 before rounding.
C4_Witness ==
    /\ call.fn = "geometry"
    /\ ret.Ds = 6
    /\ ret.shaft_dia = 180

\* C5: every design has a screw diameter of 4, 6, 9 or 12, a pitch equal to
\* the screw diameter, and a flight thickness of 0.25 for the diameters 4
\* and 6 and of 0.375 for the diameters 9 and 12.
C5_WellFormed ==
    (call.fn = "geometry" \/ (call.fn = "computeDesign" /\ ret.error = None))
        =>  /\ ret.Ds \in ScrewDiameters
            /\ ret.pitch = ret.Ds
            /\ ret.thickness = IF ret.Ds \in {4, 6} THEN 250 ELSE 375

\* A design with the 6 inch screw, the largest one with the thin flight.
C5_Witness ==
    /\ call.fn = "geometry"
    /\ ret.Ds = 6
    /\ ret.pitch = 6
    /\ ret.thickness = 250

\* C6: with every input inside the range of its widget no run ends in an
\* error, and every run binds each of its outputs to a value.
C6_Total ==
    /\ error = None
    /\ feed_rate_cfh \in Floats
    /\ Ds \in ScrewDiameters
    /\ pitch \in ScrewDiameters
    /\ shaft_dia \in Nat
    /\ thickness \in Nat
    /\ material \in Materials
    /\ power_hp \in Nat

\* A run at the lowest bulk density and the highest feed rate, moisture
\* content and angle.
C6_Witness ==
    /\ bulk_density = BulkMin
    /\ feed_rate_kgph = FeedMax
    /\ moisture_content = MoistureMax
    /\ incline_angle_deg = AngleMax
    /\ error = None

C9_SmallestScrew ==
    error = None =>
        /\ FLess[feed_rate_cfh, FromInt[1000]]
        /\ FLess[feed_rate_cfh, Lit[353148, Thousand]]
        /\ Ds = 4
        /\ pitch = 4
        /\ shaft_dia = 120
        /\ thickness = 250

\* The run with the highest volumetric feed rate: 500 kg/hr at 50 kg/m3.
C9_Witness ==
    /\ feed_rate_kgph = FeedMax
    /\ bulk_density = BulkMin
    /\ ~FLess[feed_rate_cfh, Lit[353147, Thousand]]
    /\ Ds = 4

\* C10: calculate_power returns for every screw diameter the power of the
\* design pass, and at an incline angle of 0 it returns 0.57 for every feed
\* rate and bulk density.
C10_PowerIgnoresDiameter ==
    call.fn = "power" =>
        /\ ret.power_hp =
              NumericTable[call.feed, call.bulk, call.angle].power_hp
        /\ call.angle = 0 => ret.power_hp = 57

\* The largest screw at the highest feed rate and an angle of 0.
C10_Witness ==
    /\ call.fn = "power"
    /\ call.angle = 0
    /\ call.d = 12
    /\ call.feed = FeedMax
    /\ call.bulk = BulkMin
    /\ ret.power_hp = 57
====
